---- MODULE Spec2Model ----
(***************************************************************************)
(* Model of bulk.cpp: main -> RunBulk builds the chain                     *)
(*   ConsoleInput -> BatchCommandProcessor -> ConsoleOutput -> ReportWriter*)
(* and feeds it one line of standard input at a time.                      *)
(* Texts are sequences of one-character strings, so that atoi, Join and    *)
(* GetFilename are computed character by character as the code does.       *)
(***************************************************************************)
EXTENDS Integers, Sequences, FiniteSets, TLC

\* ---------------------------------------------------------------- bounds
MaxLines == 5        \* lines read from std::cin before end of stream
MaxBulkSize == 3     \* largest positive bulk size given on the command line
MaxClock == 0        \* largest value of system_clock::now(), in ticks
TimedMaxLines == 3   \* as MaxLines, in the specification with a running clock
TimedMaxClock == 2   \* as MaxClock, in the specification with a running clock
StageMaxLines == 4   \* as MaxLines, in the specification of the stage alone
TicksPerSecond == 2  \* clock ticks per second (scaled down)
SizeBits == 16       \* width of size_t (scaled down from 64)

\* ------------------------------------------------------------- characters
DigitChars == <<"0", "1", "2", "3", "4", "5", "6", "7", "8", "9">>

IsDigit(c) == \E d \in 1..10 : DigitChars[d] = c

DigitVal(c) == (CHOOSE d \in 1..10 : DigitChars[d] = c) - 1

\* operator<<(long): decimal rendering of a non-negative integer
RECURSIVE Dec(_)
Dec(n) == IF n < 10 THEN <<DigitChars[n + 1]>>
          ELSE Dec(n \div 10) \o <<DigitChars[(n % 10) + 1]>>

\* atoi: optional sign, then the longest prefix of digits; 0 if there is none
RECURSIVE AtoiDigits(_, _, _)
AtoiDigits(s, i, acc) ==
    IF i > Len(s) \/ ~IsDigit(s[i]) THEN acc
    ELSE AtoiDigits(s, i + 1, acc * 10 + DigitVal(s[i]))

Atoi(s) ==
    IF s # <<>> /\ s[1] = "-" THEN 0 - AtoiDigits(s, 2, 0)
    ELSE IF s # <<>> /\ s[1] = "+" THEN AtoiDigits(s, 2, 0)
    ELSE AtoiDigits(s, 1, 0)

\* ------------------------------------------------------------------ input
OpenToken == <<"{">>
CloseToken == <<"}">>

\* the lines std::getline can deliver in this model
Lines == {OpenToken, CloseToken, <<"a">>, <<"b", "c">>}

\* the command lines the program is started with (argv without argv[0])
Argvs == {<<>>} \cup {<<a>> : a \in {<<"0">>, <<"x">>, <<"-", "1">>}}
         \cup {<<Dec(n)>> : n \in 1..MaxBulkSize}

MsgNoSize == "Bulk size is not specified."
MsgInvalid == "Invalid bulk size."

VARIABLES
    pc,             \* "main" | "run" (inside RunBulk's loop) | "exit"
    argv,           \* command-line arguments after argv[0]
    exitCode,       \* value returned by main (-1 until it returns)
    cerr,           \* lines written to std::cerr
    constructed,    \* RunBulk has constructed the four stages
    now,            \* last value of system_clock::now()
    mBlockDepth,    \* ConsoleInput::mBlockDepth
    mBulkSize,      \* BatchCommandProcessor::mBulkSize
    mBlockForced,   \* BatchCommandProcessor::mBlockForced
    mCommandBatch,  \* BatchCommandProcessor::mCommandBatch
    mNextCommandProcessor,  \* BatchCommandProcessor::mNextCommandProcessor
    cout,           \* lines written to std::cout
    files,          \* file system: file name -> content
    input,          \* history: the Commands built from the lines read so far
    calls,          \* history: calls ConsoleInput made on the next stage
    flushes,        \* history: every DumpBatch call
    io              \* history: every write to std::cout or to a file, in order

vars == <<pc, argv, exitCode, cerr, constructed, now, mBlockDepth, mBulkSize,
          mBlockForced, mCommandBatch, mNextCommandProcessor, cout, files,
          input, calls, flushes, io>>

\* struct Command
Command(text, timestamp) == [Text |-> text, Timestamp |-> timestamp]

\* the state the stages work on, as one record
Chain == [mBlockDepth |-> mBlockDepth, mBulkSize |-> mBulkSize,
          mBlockForced |-> mBlockForced, mCommandBatch |-> mCommandBatch,
          mNextCommandProcessor |-> mNextCommandProcessor,
          cout |-> cout, files |-> files, calls |-> calls,
          flushes |-> flushes, io |-> io, line |-> Len(input)]

\* ------------------------------------------------------------ ReportWriter
\* as GetFilename without the duration_cast to seconds
ReportWriter_GetFilename_Ticks(command) ==
    <<"b", "u", "l", "k">> \o Dec(command.Timestamp) \o <<".", "l", "o", "g">>

ReportWriter_GetFilename(command) ==
    <<"b", "u", "l", "k">> \o Dec(command.Timestamp \div TicksPerSecond)
        \o <<".", "l", "o", "g">>

\* opens the file truncating it, writes the text; there is no next stage
ReportWriter_ProcessCommand(s, command) ==
    LET name == ReportWriter_GetFilename(command)
    IN [s EXCEPT !.files = (name :> command.Text) @@ @,
                 !.io = Append(@, [sink |-> "file", name |-> name,
                                   text |-> command.Text,
                                   stamp |-> command.Timestamp])]

\* ----------------------------------------------------------- ConsoleOutput
\* as ConsoleOutput::ProcessCommand with mNextCommandProcessor left null
ConsoleOutput_ProcessCommand_NoNext(s, command) ==
    [s EXCEPT !.cout = Append(@, command.Text),
              !.io = Append(@, [sink |-> "cout", name |-> <<>>,
                                text |-> command.Text,
                                stamp |-> command.Timestamp])]

ConsoleOutput_ProcessCommand(s, command) ==
    ReportWriter_ProcessCommand(
        [s EXCEPT !.cout = Append(@, command.Text),
                  !.io = Append(@, [sink |-> "cout", name |-> <<>>,
                                    text |-> command.Text,
                                    stamp |-> command.Timestamp])],
        command)

\* --------------------------------------------------- BatchCommandProcessor
NullStage == "nullptr"
ConsoleOutputStage == "consoleOutput"

BulkTag == <<"b", "u", "l", "k", ":", " ">>
Separator == <<",", " ">>

\* the loop of Join, one iteration per element
RECURSIVE JoinFrom(_, _, _)
JoinFrom(v, i, ss) ==
    IF i > Len(v) THEN ss
    ELSE JoinFrom(v, i + 1,
                  (IF i # 1 THEN ss \o Separator ELSE ss) \o v[i].Text)

\* as Join without the test i != 0
Join_LeadingSeparator(v) == JoinFrom(v, 1, Separator)

Join(v) == JoinFrom(v, 1, <<>>)

\* as ClearBatch without the clear()
ClearBatch_Keep(s) == s

ClearBatch(s) == [s EXCEPT !.mCommandBatch = <<>>]

\* as DumpBatch without the test !mCommandBatch.empty()
DumpBatch_NoEmptyTest(s, cause) ==
    LET rec == [cause |-> cause, batch |-> s.mCommandBatch, line |-> s.line]
        s0 == [s EXCEPT !.flushes = Append(@, rec)]
        s1 == IF s.mNextCommandProcessor # NullStage
              THEN ConsoleOutput_ProcessCommand(s0,
                       Command(BulkTag \o Join(s.mCommandBatch),
                               IF s.mCommandBatch # <<>>
                               THEN s.mCommandBatch[1].Timestamp ELSE 0))
              ELSE s0
    IN ClearBatch(s1)

\* as DumpBatch with ClearBatch() moved inside the if
DumpBatch_ClearInside(s, cause) ==
    LET rec == [cause |-> cause, batch |-> s.mCommandBatch, line |-> s.line]
        s0 == [s EXCEPT !.flushes = Append(@, rec)]
    IN IF s.mNextCommandProcessor # NullStage /\ s.mCommandBatch # <<>>
       THEN ClearBatch(ConsoleOutput_ProcessCommand(s0,
                Command(BulkTag \o Join(s.mCommandBatch),
                        s.mCommandBatch[1].Timestamp)))
       ELSE s0

\* as DumpBatch taking the timestamp of mCommandBatch.back()
DumpBatch_LastTimestamp(s, cause) ==
    LET rec == [cause |-> cause, batch |-> s.mCommandBatch, line |-> s.line]
        s0 == [s EXCEPT !.flushes = Append(@, rec)]
        s1 == IF s.mNextCommandProcessor # NullStage /\ s.mCommandBatch # <<>>
              THEN ConsoleOutput_ProcessCommand(s0,
                       Command(BulkTag \o Join(s.mCommandBatch),
                               s.mCommandBatch[Len(s.mCommandBatch)].Timestamp))
              ELSE s0
    IN ClearBatch(s1)

DumpBatch(s, cause) ==
    LET rec == [cause |-> cause, batch |-> s.mCommandBatch, line |-> s.line]
        s0 == [s EXCEPT !.flushes = Append(@, rec)]
        s1 == IF s.mNextCommandProcessor # NullStage /\ s.mCommandBatch # <<>>
              THEN ConsoleOutput_ProcessCommand(s0,
                       Command(BulkTag \o Join(s.mCommandBatch),
                               s.mCommandBatch[1].Timestamp))
              ELSE s0
    IN ClearBatch(s1)

\* as StartBlock without the DumpBatch() call
StartBlock_NoDump(s) == [s EXCEPT !.mBlockForced = TRUE]

StartBlock(s) == DumpBatch([s EXCEPT !.mBlockForced = TRUE], "start")

\* as FinishBlock without the DumpBatch() call
FinishBlock_NoDump(s) == [s EXCEPT !.mBlockForced = FALSE]

FinishBlock(s) == DumpBatch([s EXCEPT !.mBlockForced = FALSE], "finish")

\* the int mBulkSize converted to size_t for the comparison with size()
\* as the comparison made on signed values
ToSizeT_Signed(n) == n

ToSizeT(n) == n % (2 ^ SizeBits)

\* as ProcessCommand with > in place of >=
BatchCommandProcessor_ProcessCommand_Greater(s, command) ==
    LET s1 == [s EXCEPT !.mCommandBatch = Append(@, command)]
    IN IF ~s1.mBlockForced /\ Len(s1.mCommandBatch) > ToSizeT(s1.mBulkSize)
       THEN DumpBatch(s1, "size")
       ELSE s1

\* as ProcessCommand without the test of mBlockForced
BatchCommandProcessor_ProcessCommand_Unforced(s, command) ==
    LET s1 == [s EXCEPT !.mCommandBatch = Append(@, command)]
    IN IF Len(s1.mCommandBatch) >= ToSizeT(s1.mBulkSize)
       THEN DumpBatch(s1, "size")
       ELSE s1

BatchCommandProcessor_ProcessCommand(s, command) ==
    LET s1 == [s EXCEPT !.mCommandBatch = Append(@, command)]
    IN IF ~s1.mBlockForced /\ Len(s1.mCommandBatch) >= ToSizeT(s1.mBulkSize)
       THEN DumpBatch(s1, "size")
       ELSE s1

\* as the destructor without the test of mBlockForced
BatchCommandProcessor_Destructor_Always(s) == DumpBatch(s, "teardown")

\* as a destructor that does nothing
BatchCommandProcessor_Destructor_Never(s) == s

BatchCommandProcessor_Destructor(s) ==
    IF ~s.mBlockForced THEN DumpBatch(s, "teardown") ELSE s

\* ------------------------------------------------------------ ConsoleInput
Called(s, fn, command) ==
    [s EXCEPT !.calls = Append(@, [fn |-> fn, line |-> s.line,
                                   command |-> command])]

\* as ConsoleInput::ProcessCommand calling the hooks at every depth
ConsoleInput_ProcessCommand_EveryDepth(s, command) ==
    IF command.Text = OpenToken
    THEN StartBlock(Called([s EXCEPT !.mBlockDepth = @ + 1],
                           "StartBlock", command))
    ELSE IF command.Text = CloseToken
    THEN FinishBlock(Called([s EXCEPT !.mBlockDepth = @ - 1],
                            "FinishBlock", command))
    ELSE BatchCommandProcessor_ProcessCommand(
             Called(s, "ProcessCommand", command), command)

\* as ConsoleInput::ProcessCommand ignoring a '}' received at depth <= 0
ConsoleInput_ProcessCommand_Clamped(s, command) ==
    IF command.Text = OpenToken
    THEN LET s1 == [s EXCEPT !.mBlockDepth = @ + 1]
         IN IF s.mBlockDepth = 0
            THEN StartBlock(Called(s1, "StartBlock", command))
            ELSE s1
    ELSE IF command.Text = CloseToken
    THEN IF s.mBlockDepth <= 0 THEN s
         ELSE LET s1 == [s EXCEPT !.mBlockDepth = @ - 1]
              IN IF s1.mBlockDepth = 0
                 THEN FinishBlock(Called(s1, "FinishBlock", command))
                 ELSE s1
    ELSE BatchCommandProcessor_ProcessCommand(
             Called(s, "ProcessCommand", command), command)

\* as ConsoleInput::ProcessCommand with <= 0 in the test after --mBlockDepth
ConsoleInput_ProcessCommand_CloseAtZero(s, command) ==
    IF command.Text = OpenToken
    THEN LET s1 == [s EXCEPT !.mBlockDepth = @ + 1]
         IN IF s.mBlockDepth = 0
            THEN StartBlock(Called(s1, "StartBlock", command))
            ELSE s1
    ELSE IF command.Text = CloseToken
    THEN LET s1 == [s EXCEPT !.mBlockDepth = @ - 1]
         IN IF s1.mBlockDepth <= 0
            THEN FinishBlock(Called(s1, "FinishBlock", command))
            ELSE s1
    ELSE BatchCommandProcessor_ProcessCommand(
             Called(s, "ProcessCommand", command), command)

\* as ConsoleInput::ProcessCommand with <= 0 in the test of mBlockDepth++
ConsoleInput_ProcessCommand_OpenAtNegative(s, command) ==
    IF command.Text = OpenToken
    THEN LET s1 == [s EXCEPT !.mBlockDepth = @ + 1]
         IN IF s.mBlockDepth <= 0
            THEN StartBlock(Called(s1, "StartBlock", command))
            ELSE s1
    ELSE IF command.Text = CloseToken
    THEN LET s1 == [s EXCEPT !.mBlockDepth = @ - 1]
         IN IF s1.mBlockDepth = 0
            THEN FinishBlock(Called(s1, "FinishBlock", command))
            ELSE s1
    ELSE BatchCommandProcessor_ProcessCommand(
             Called(s, "ProcessCommand", command), command)

ConsoleInput_ProcessCommand(s, command) ==
    IF command.Text = OpenToken
    THEN LET s1 == [s EXCEPT !.mBlockDepth = @ + 1]
         IN IF s.mBlockDepth = 0
            THEN StartBlock(Called(s1, "StartBlock", command))
            ELSE s1
    ELSE IF command.Text = CloseToken
    THEN LET s1 == [s EXCEPT !.mBlockDepth = @ - 1]
         IN IF s1.mBlockDepth = 0
            THEN FinishBlock(Called(s1, "FinishBlock", command))
            ELSE s1
    ELSE BatchCommandProcessor_ProcessCommand(
             Called(s, "ProcessCommand", command), command)

\* ----------------------------------------------------------------- actions
Init ==
    /\ pc = "main"
    /\ argv \in Argvs
    /\ exitCode = -1
    /\ cerr = <<>>
    /\ constructed = FALSE
    /\ now = 0
    /\ mBlockDepth = 0
    /\ mBulkSize = 0
    /\ mBlockForced = FALSE
    /\ mCommandBatch = <<>>
    /\ mNextCommandProcessor = NullStage
    /\ cout = <<>>
    /\ files = <<>>
    /\ input = <<>>
    /\ calls = <<>>
    /\ flushes = <<>>
    /\ io = <<>>

StageVars == <<mBlockDepth, mBlockForced, mCommandBatch, cout, files, calls,
               flushes, io>>

\* main: argc < 2
MainNoArgument ==
    /\ pc = "main"
    /\ Len(argv) + 1 < 2
    /\ cerr' = Append(cerr, MsgNoSize)
    /\ exitCode' = 1
    /\ pc' = "exit"
    /\ UNCHANGED <<argv, constructed, now, mBulkSize, mNextCommandProcessor,
                   input>>
    /\ UNCHANGED StageVars

\* main: atoi(argv[1]) == 0
MainInvalidSize ==
    /\ pc = "main"
    /\ Len(argv) + 1 >= 2
    /\ Atoi(argv[1]) = 0
    /\ cerr' = Append(cerr, MsgInvalid)
    /\ exitCode' = 1
    /\ pc' = "exit"
    /\ UNCHANGED <<argv, constructed, now, mBulkSize, mNextCommandProcessor,
                   input>>
    /\ UNCHANGED StageVars

\* main calls RunBulk(bulkSize), which constructs the stages; next is the
\* stage the BatchCommandProcessor is constructed with
RunBulkWith(next) ==
    /\ pc = "main"
    /\ Len(argv) + 1 >= 2
    /\ Atoi(argv[1]) # 0
    /\ mBulkSize' = Atoi(argv[1])
    /\ mNextCommandProcessor' = next
    /\ mBlockForced' = FALSE
    /\ mBlockDepth' = 0
    /\ constructed' = TRUE
    /\ pc' = "run"
    /\ UNCHANGED <<argv, exitCode, cerr, now, mCommandBatch, cout, files,
                   input, calls, flushes, io>>

MainRunBulk == RunBulkWith(ConsoleOutputStage)

\* the same stages with the BatchCommandProcessor constructed with either
\* argument its constructor accepts: a next stage or nullptr
StageRunBulk == \E next \in {NullStage, ConsoleOutputStage} : RunBulkWith(next)

Install(s) ==
    /\ mBlockDepth' = s.mBlockDepth
    /\ mBlockForced' = s.mBlockForced
    /\ mCommandBatch' = s.mCommandBatch
    /\ cout' = s.cout
    /\ files' = s.files
    /\ calls' = s.calls
    /\ flushes' = s.flushes
    /\ io' = s.io

\* one iteration of RunBulk's loop: getline succeeds, the clock is read,
\* consoleInput.ProcessCommand runs to completion
ReadLineWithin(maxLines, maxClock) ==
    /\ pc = "run"
    /\ Len(input) < maxLines
    /\ \E text \in Lines, t \in now..maxClock :
          LET command == Command(text, t)
          IN /\ now' = t
             /\ input' = Append(input, command)
             /\ Install(ConsoleInput_ProcessCommand(
                           [Chain EXCEPT !.line = Len(input) + 1], command))
    /\ UNCHANGED <<pc, argv, exitCode, cerr, constructed, mBulkSize,
                   mNextCommandProcessor>>

ReadLine == ReadLineWithin(MaxLines, MaxClock)

TimedReadLine == ReadLineWithin(TimedMaxLines, TimedMaxClock)

StageReadLine == ReadLineWithin(StageMaxLines, MaxClock)

\* getline fails: RunBulk returns, the stages are destroyed in reverse order
\* of construction (only ~BatchCommandProcessor does anything), main returns 0
EndOfStream ==
    /\ pc = "run"
    /\ Install(BatchCommandProcessor_Destructor(
                  [Chain EXCEPT !.line = Len(input) + 1]))
    /\ exitCode' = 0
    /\ pc' = "exit"
    /\ UNCHANGED <<argv, cerr, constructed, now, mBulkSize,
                   mNextCommandProcessor, input>>

Next == MainNoArgument \/ MainInvalidSize \/ MainRunBulk \/ ReadLine
        \/ EndOfStream

Spec == Init /\ [][Next]_vars

\* the same program on shorter inputs, with a clock that advances between
\* the lines
TimedNext == MainNoArgument \/ MainInvalidSize \/ MainRunBulk \/ TimedReadLine
             \/ EndOfStream

TimedSpec == Init /\ [][TimedNext]_vars

\* the program runs without pause: a step that can be taken is taken
LiveSpec == TimedSpec /\ WF_vars(TimedNext)

\* the stages driven as RunBulk drives them, the BatchCommandProcessor with or
\* without a next stage
StageNext == MainNoArgument \/ MainInvalidSize \/ StageRunBulk
             \/ StageReadLine \/ EndOfStream

StageSpec == Init /\ [][StageNext]_vars

\* ------------------------------------------------- vocabulary of the claims
IsDelimiter(c) == c.Text = OpenToken \/ c.Text = CloseToken

IsOrdinary(c) == ~IsDelimiter(c)

Ordinary(cmds) == SelectSeq(cmds, IsOrdinary)

\* number of '{' lines minus number of '}' lines among the first i lines read
RECURSIVE DepthAt(_)
DepthAt(i) ==
    IF i = 0 THEN 0
    ELSE DepthAt(i - 1) + (IF input[i].Text = OpenToken THEN 1
                           ELSE IF input[i].Text = CloseToken THEN -1
                           ELSE 0)

\* line i opens a top-level block
OpensBlock(i) ==
    i \in 1..Len(input) /\ input[i].Text = OpenToken /\ DepthAt(i - 1) = 0

\* line j closes the top-level block that line i opened
ClosesBlock(i, j) ==
    /\ OpensBlock(i)
    /\ j \in (i + 1)..Len(input)
    /\ DepthAt(j) = 0
    /\ \A m \in i..(j - 1) : DepthAt(m) >= 1

HasBatch(f) == f.batch # <<>>

\* the flushes that passed a synthetic command downstream
Emitted == SelectSeq(flushes, HasBatch)

\* the DumpBatch calls made while line n was processed
FlushesAt(n) == {k \in 1..Len(flushes) : flushes[k].line = n}

\* the commands of the batches flushed by flushes[1..n], in emission order
RECURSIVE FlushedUpTo(_)
FlushedUpTo(n) ==
    IF n = 0 THEN <<>> ELSE FlushedUpTo(n - 1) \o flushes[n].batch

\* the commands flushed while lines 1..n were processed
FlushedByLine(n) ==
    FlushedUpTo(Cardinality({k \in 1..Len(flushes) : flushes[k].line <= n}))

IsCout(e) == e.sink = "cout"

IsFile(e) == e.sink = "file"

NoBlockTokens == \A i \in 1..Len(input) : IsOrdinary(input[i])

\* ------------------------------------------------------------------ claims

\* C1: with a threshold N > 0 and k ordinary lines and no '{' or '}' line,
\* the j-th emitted batch is emitted by the size test while the (j*N)-th line
\* is processed and consists of lines (j-1)*N+1 .. j*N; until end of stream
\* the k mod N leftover commands stay in the batch; at end of stream they are
\* emitted once if k mod N # 0 and nothing is emitted otherwise, so that
\* ceil(k/N) batches are emitted in all, one console line each.
C1_SizeFlush ==
    (constructed /\ mBulkSize > 0 /\ NoBlockTokens) =>
        LET k == Len(input)
            N == mBulkSize
            full == k \div N
        IN /\ Len(Emitted) >= full
           /\ \A j \in 1..full :
                 /\ Emitted[j].cause = "size"
                 /\ Emitted[j].line = j * N
                 /\ Emitted[j].batch = SubSeq(input, (j - 1) * N + 1, j * N)
           /\ pc = "run" =>
                 /\ Len(Emitted) = full
                 /\ mCommandBatch = SubSeq(input, full * N + 1, k)
           /\ pc = "exit" =>
                 /\ Len(Emitted) = (k + N - 1) \div N
                 /\ mCommandBatch = <<>>
                 /\ k % N # 0 =>
                       /\ Emitted[full + 1].cause = "teardown"
                       /\ Emitted[full + 1].batch = SubSeq(input, full * N + 1, k)
                 /\ Cardinality({f \in 1..Len(flushes) :
                                    flushes[f].cause = "teardown"}) = 1
           /\ Len(cout) = Len(Emitted)

C1_Witness ==
    /\ pc = "exit" /\ mBulkSize = 2 /\ NoBlockTokens /\ Len(input) = 5
    /\ Len(cout) = 3
    /\ flushes[Len(flushes)].cause = "teardown"
    /\ Len(flushes[Len(flushes)].batch) = 1

\* C2: for every top-level '{' at line i matched by '}' at line j, exactly one
\* flush happens at line i (the block-start hook) and after it everything
\* read before line i has been flushed; no flush happens strictly between i
\* and j; exactly one flush happens at line j (the block-end hook) and its
\* batch is the whole content of the block, whatever its length relative to
\* N; and if the input ends at line j the teardown emits nothing.
C2_BlockFlushes ==
    constructed =>
        \A i \in 1..Len(input), j \in 1..Len(input) :
            ClosesBlock(i, j) =>
                /\ Cardinality(FlushesAt(i)) = 1
                /\ \A f \in FlushesAt(i) : flushes[f].cause = "start"
                /\ FlushedByLine(i) = Ordinary(SubSeq(input, 1, i - 1))
                /\ \A m \in (i + 1)..(j - 1) : FlushesAt(m) = {}
                /\ Cardinality(FlushesAt(j)) = 1
                /\ \A f \in FlushesAt(j) :
                      /\ flushes[f].cause = "finish"
                      /\ flushes[f].batch =
                             Ordinary(SubSeq(input, i + 1, j - 1))
                /\ (pc = "exit" /\ j = Len(input)) =>
                      /\ \A f \in FlushesAt(j + 1) : flushes[f].batch = <<>>
                      /\ Len(cout) = Cardinality({f \in 1..Len(flushes) :
                             flushes[f].line <= j /\ flushes[f].batch # <<>>})

C2_Witness ==
    /\ pc = "exit" /\ mBulkSize = 2 /\ Len(input) = 5
    /\ ClosesBlock(2, 5)
    /\ IsOrdinary(input[1]) /\ IsOrdinary(input[3]) /\ IsOrdinary(input[4])
    /\ \E f \in FlushesAt(2) : Len(flushes[f].batch) = 1
    /\ \E f \in FlushesAt(5) : Len(flushes[f].batch) = 2
    /\ Len(cout) = 2

\* C3: while mBlockForced is true, a command forwarded to the batching stage
\* is appended to the batch and nothing else happens (no flush, no console
\* line, no file), whatever the batch length; and the only step that writes
\* anything while mBlockForced is true is the block-end hook.
C3_NoFlushWhileForced ==
    [][(pc = "run" /\ mBlockForced) =>
          /\ (Len(calls') = Len(calls) + 1
                /\ calls'[Len(calls')].fn = "ProcessCommand") =>
                /\ flushes' = flushes
                /\ io' = io /\ cout' = cout /\ files' = files
                /\ mCommandBatch' = Append(mCommandBatch, input'[Len(input')])
                /\ mBlockForced'
          /\ (flushes' # flushes \/ io' # io \/ cout' # cout
                \/ files' # files) =>
                /\ Len(flushes') = Len(flushes) + 1
                /\ flushes'[Len(flushes')].cause = "finish"
                /\ flushes'[Len(flushes')].batch = mCommandBatch]_vars

C3_Witness ==
    /\ pc = "run" /\ mBlockForced /\ mBulkSize = 2
    /\ Len(mCommandBatch) = 4
    /\ calls[Len(calls)].fn = "ProcessCommand"

\* C4: StartBlock is called only for a '{' read at depth 0 and FinishBlock
\* only for a '}' that brings the depth from 1 to 0; every other '{' or '}'
\* line causes no call and no flush; no '{' or '}' line is forwarded as a
\* command and none is an element of a flushed batch.
C4_OutermostOnly ==
    constructed =>
        /\ \A c \in 1..Len(calls) :
              LET r == calls[c]
              IN /\ r.line \in 1..Len(input)
                 /\ r.command = input[r.line]
                 /\ r.fn = "StartBlock" =>
                       r.command.Text = OpenToken /\ DepthAt(r.line - 1) = 0
                 /\ r.fn = "FinishBlock" =>
                       /\ r.command.Text = CloseToken
                       /\ DepthAt(r.line - 1) = 1
                 /\ r.fn = "ProcessCommand" => IsOrdinary(r.command)
        /\ \A i \in 1..Len(input) :
              IsDelimiter(input[i]) =>
                 LET outer == \/ OpensBlock(i)
                              \/ input[i].Text = CloseToken /\ DepthAt(i) = 0
                     made == {c \in 1..Len(calls) : calls[c].line = i}
                 IN IF outer
                    THEN /\ Cardinality(made) = 1
                         /\ \A c \in made : calls[c].fn # "ProcessCommand"
                    ELSE made = {} /\ FlushesAt(i) = {}
        /\ \A f \in 1..Len(flushes) :
              \A e \in 1..Len(flushes[f].batch) :
                 IsOrdinary(flushes[f].batch[e])

C4_Witness ==
    /\ pc = "exit" /\ Len(input) = 5
    /\ input[1].Text = OpenToken /\ input[2].Text = OpenToken
    /\ IsOrdinary(input[3])
    /\ input[4].Text = CloseToken /\ input[5].Text = CloseToken
    /\ Len(calls) = 3 /\ Len(cout) = 1

\* C5: when the program has ended with mBlockForced true, a top-level '{'
\* at some line i was never closed, every flush happened no later than line
\* i, what was flushed is exactly what was read before line i, the lines
\* read after line i are still in the batch, and the console and the files
\* hold only the flushed batches.
C5_UnterminatedBlock ==
    (pc = "exit" /\ constructed /\ mBlockForced) =>
        \E i \in 1..Len(input) :
            /\ OpensBlock(i)
            /\ \A m \in i..Len(input) : DepthAt(m) >= 1
            /\ \A f \in 1..Len(flushes) :
                  flushes[f].line <= i /\ flushes[f].cause # "teardown"
            /\ FlushedUpTo(Len(flushes)) = Ordinary(SubSeq(input, 1, i - 1))
            /\ mCommandBatch = Ordinary(SubSeq(input, i + 1, Len(input)))
            /\ Len(cout) = Len(Emitted)
            /\ \A k \in 1..Len(cout) :
                  cout[k] = BulkTag \o Join(Emitted[k].batch)
            /\ Len(SelectSeq(io, IsFile)) = Len(Emitted)
            /\ \A n \in DOMAIN files : \E k \in 1..Len(cout) : files[n] = cout[k]

C5_Witness ==
    /\ pc = "exit" /\ mBlockForced /\ Len(input) = 5
    /\ Len(mCommandBatch) = 2 /\ Len(cout) = 1

\* C6: the batches flushed so far followed by the current batch are the
\* ordinary lines read so far, in input order; hence when the program has
\* ended with mBlockForced false, the concatenation of the emitted batches
\* is the sequence of all ordinary input lines, and the console shows one
\* line per emitted batch.
C6_NoLossNoDuplication ==
    constructed =>
        /\ FlushedUpTo(Len(flushes)) \o mCommandBatch = Ordinary(input)
        /\ (pc = "exit" /\ ~mBlockForced) =>
              /\ mCommandBatch = <<>>
              /\ FlushedUpTo(Len(flushes)) = Ordinary(input)
              /\ Len(cout) = Len(Emitted)
              /\ \A k \in 1..Len(cout) :
                    cout[k] = BulkTag \o Join(Emitted[k].batch)

C6_Witness ==
    /\ pc = "exit" /\ ~mBlockForced /\ mBulkSize = 2
    /\ Len(input) = 5 /\ Len(Ordinary(input)) = 3
    /\ Len(Emitted) = 2
    /\ Emitted[2].cause = "teardown"

\* C7: with no argument, or with an argument whose value is <= 0, no
\* pipeline is constructed, no line is read, and the program ends with a
\* diagnostic on std::cerr and a non-zero status.
C7_ConfigurationError ==
    (argv = <<>> \/ Atoi(argv[1]) <= 0) =>
        /\ ~constructed
        /\ input = <<>>
        /\ pc # "run"
        /\ pc = "exit" => (exitCode # 0 /\ cerr # <<>>)

NoStrayClose == \A i \in 0..Len(input) : DepthAt(i) >= 0

\* C8 as stated: mBlockDepth >= 0 in every reachable state.
C8_DepthNonNegative == mBlockDepth >= 0

\* C8 amended: mBlockDepth is the number of '{' lines minus the number of
\* '}' lines read so far; it is >= 0 as long as no prefix of the input has
\* more '}' than '{' lines, and negative after a '}' read at depth 0.
C8_DepthIsBalance ==
    constructed =>
        /\ mBlockDepth = DepthAt(Len(input))
        /\ NoStrayClose => mBlockDepth >= 0

C8_Witness ==
    /\ pc = "run" /\ NoStrayClose /\ Len(input) = 5
    /\ mBlockDepth = 1
    /\ \E i \in 1..Len(input) : input[i].Text = CloseToken

\* position in the joined text after which element i of batch b starts
RECURSIVE ElementOffset(_, _)
ElementOffset(b, i) ==
    IF i = 1 THEN 6 ELSE ElementOffset(b, i - 1) + Len(b[i - 1].Text) + 2

\* C9: the text of the k-th console line is "bulk: ", then the texts of the
\* k-th emitted batch in order, with ", " between consecutive elements and
\* nothing before the first or after the last.
C9_JoinFormat ==
    /\ Len(cout) = Len(Emitted)
    /\ \A k \in 1..Len(cout) :
          LET b == Emitted[k].batch
              text == cout[k]
              n == Len(b)
          IN /\ Len(text) = ElementOffset(b, n) + Len(b[n].Text)
             /\ SubSeq(text, 1, 6) = <<"b", "u", "l", "k", ":", " ">>
             /\ \A i \in 1..n :
                   SubSeq(text, ElementOffset(b, i) + 1,
                          ElementOffset(b, i) + Len(b[i].Text)) = b[i].Text
             /\ \A i \in 1..(n - 1) :
                   SubSeq(text, ElementOffset(b, i + 1) - 1,
                          ElementOffset(b, i + 1)) = <<",", " ">>

C9_Witness ==
    /\ Len(cout) = 2
    /\ Len(Emitted[1].batch) = 3 /\ Len(Emitted[2].batch) = 1
    /\ cout[1] = <<"b", "u", "l", "k", ":", " ", "a", ",", " ", "b", "c",
                   ",", " ", "a">>
    /\ cout[2] = <<"b", "u", "l", "k", ":", " ", "b", "c">>

\* C10: the writes to the sinks come in pairs, one pair per emitted batch in
\* emission order: a console line and then a file write, both carrying
\* "bulk: " + Join(batch); the console shows exactly these lines, every file
\* holds the text of a write made to it, and no console line or file content
\* is a raw input line.
C10_SinksGetBatchesOnly ==
    /\ Len(io) = 2 * Len(Emitted)
    /\ Len(cout) = Len(Emitted)
    /\ \A k \in 1..Len(Emitted) :
          LET text == BulkTag \o Join(Emitted[k].batch)
          IN /\ io[2 * k - 1].sink = "cout" /\ io[2 * k - 1].text = text
             /\ io[2 * k].sink = "file" /\ io[2 * k].text = text
             /\ cout[k] = text
    /\ \A n \in DOMAIN files :
          \E e \in 1..Len(io) :
             io[e].sink = "file" /\ io[e].name = n /\ io[e].text = files[n]
    /\ \A i \in 1..Len(input) :
          /\ \A k \in 1..Len(cout) : cout[k] # input[i].Text
          /\ \A n \in DOMAIN files : files[n] # input[i].Text

C10_Witness ==
    /\ pc = "exit" /\ Len(Emitted) = 3 /\ Len(io) = 6
    /\ Emitted[1].batch # Emitted[3].batch
    /\ \E n \in DOMAIN files : files[n] = cout[3]

\* C11: the program reaches its exit; each line's calls and flushes are
\* complete before the next line is read (the histories are ordered by line
\* and never run ahead of the input), and once a constructed pipeline has
\* ended the exit status is 0, nothing was written to std::cerr and, unless
\* a block is open, the last flush is the one of the teardown, made after the
\* last line, leaving the batch empty.
C11_Terminates ==
    /\ <>(pc = "exit")
    /\ [](constructed =>
            /\ \A c \in 1..Len(calls) :
                  /\ calls[c].line \in 1..Len(input)
                  /\ c > 1 => calls[c - 1].line < calls[c].line
            /\ \A f \in 1..Len(flushes) :
                  /\ flushes[f].line <= Len(input) + 1
                  /\ f > 1 => flushes[f - 1].line < flushes[f].line
                  /\ flushes[f].line = Len(input) + 1 => pc = "exit"
            /\ pc = "exit" =>
                  /\ exitCode = 0 /\ cerr = <<>>
                  /\ ~mBlockForced =>
                        /\ flushes # <<>>
                        /\ flushes[Len(flushes)].cause = "teardown"
                        /\ flushes[Len(flushes)].line = Len(input) + 1
                        /\ mCommandBatch = <<>>
                        /\ FlushedUpTo(Len(flushes)) = Ordinary(input))

C11_Witness ==
    /\ pc = "exit" /\ exitCode = 0 /\ Len(input) = 3 /\ mBulkSize = 2
    /\ NoBlockTokens
    /\ Len(flushes) = 2 /\ Len(flushes[2].batch) = 1 /\ Len(cout) = 2

\* a step in which DumpBatch ran on empty batches only
OnlyEmptyFlushes ==
    /\ Len(flushes') > Len(flushes)
    /\ \A f \in (Len(flushes) + 1)..Len(flushes') : flushes'[f].batch = <<>>

\* C12: a step whose flushes all found the batch empty writes nothing to
\* the console or to a file; the console never shows the bare tag, and it
\* shows exactly one line per flush that found commands in the batch.
C12_EmptyBatchSilent ==
    /\ [][OnlyEmptyFlushes =>
             io' = io /\ cout' = cout /\ files' = files]_vars
    /\ [](/\ \A k \in 1..Len(cout) : cout[k] # <<"b", "u", "l", "k", ":", " ">>
          /\ Len(cout) = Cardinality({f \in 1..Len(flushes) :
                                         Len(flushes[f].batch) >= 1}))

C12_Witness ==
    /\ pc = "exit" /\ Len(flushes) = 4 /\ Len(cout) = 1
    /\ flushes[1].cause = "start" /\ flushes[1].batch = <<>>
    /\ flushes[2].cause = "finish" /\ flushes[2].batch = <<>>
    /\ flushes[3].cause = "size"
    /\ flushes[4].cause = "teardown" /\ flushes[4].batch = <<>>

\* C13: every step in which DumpBatch ran (block start, block end, size
\* test, teardown) ends with an empty batch, with or without a next stage
\* and whether or not the batch was empty.
C13_FlushEmptiesBatch ==
    [][Len(flushes') > Len(flushes) => mCommandBatch' = <<>>]_vars

C13_Witness ==
    /\ pc = "exit" /\ mNextCommandProcessor = NullStage /\ mBulkSize = 1
    /\ mCommandBatch = <<>> /\ cout = <<>> /\ io = <<>>
    /\ Len(flushes) = 4
    /\ flushes[1].cause = "size" /\ Len(flushes[1].batch) = 1
    /\ flushes[2].cause = "start" /\ flushes[2].batch = <<>>
    /\ flushes[3].cause = "finish" /\ Len(flushes[3].batch) = 1
    /\ flushes[4].cause = "teardown"

\* number of ordinary lines among the first i lines read
OrdinaryBefore(i) == Len(Ordinary(SubSeq(input, 1, i)))

\* line i is a top-level '{' or the '}' that closes a top-level block
IsBlockBoundary(i) ==
    \/ OpensBlock(i)
    \/ /\ i \in 1..Len(input)
       /\ input[i].Text = CloseToken
       /\ DepthAt(i) = 0

\* C14: the flushed batches followed by the current batch are consecutive
\* segments of the ordinary input lines, and no segment contains both a line
\* read before a top-level '{' (or the '}' closing it) and a line read after
\* it; right after a top-level '{' mBlockForced is true and the batch empty,
\* right after its '}' mBlockForced is false and the batch empty.
C14_BlockSeparates ==
    constructed =>
        /\ FlushedUpTo(Len(flushes)) \o mCommandBatch = Ordinary(input)
        /\ \A i \in 1..Len(input) :
              IsBlockBoundary(i) =>
                 /\ \A f \in 1..Len(flushes) :
                       ~(/\ Len(FlushedUpTo(f - 1)) < OrdinaryBefore(i)
                         /\ OrdinaryBefore(i) < Len(FlushedUpTo(f)))
                 /\ mCommandBatch # <<>> =>
                       Len(FlushedUpTo(Len(flushes))) >= OrdinaryBefore(i)
                 /\ i = Len(input) =>
                       /\ mCommandBatch = <<>>
                       /\ mBlockForced <=> input[i].Text = OpenToken

C14_Witness ==
    /\ pc = "exit" /\ mBulkSize = 3 /\ Len(input) = 5
    /\ IsOrdinary(input[1]) /\ ClosesBlock(2, 4) /\ IsOrdinary(input[3])
    /\ IsOrdinary(input[5])
    /\ Len(Emitted) = 3
    /\ Emitted[1].cause = "start" /\ Emitted[2].cause = "finish"
    /\ Emitted[3].cause = "teardown"

\* C15: the command each sink receives for the k-th emitted batch carries
\* the timestamp of the first command of that batch.
C15_FirstTimestamp ==
    /\ Len(io) = 2 * Len(Emitted)
    /\ \A k \in 1..Len(Emitted) :
          /\ io[2 * k - 1].stamp = Emitted[k].batch[1].Timestamp
          /\ io[2 * k].stamp = Emitted[k].batch[1].Timestamp

C15_Witness ==
    /\ Len(input) = 3 /\ Len(Emitted) = 1 /\ Len(io) = 2
    /\ Emitted[1].cause = "start" /\ Len(Emitted[1].batch) = 2
    /\ Emitted[1].batch[1].Timestamp = 0
    /\ Emitted[1].batch[2].Timestamp = 1
    /\ input[3].Timestamp = 2
    /\ io[2].stamp = 0

\* C16: a '}' read at depth 0 makes the depth -1 and changes nothing else:
\* no call on the next stage, no flush, no output, batch and mBlockForced
\* unchanged, no diagnostic, the loop goes on.
C16_StrayClose ==
    [][(/\ pc = "run" /\ mBlockDepth = 0
        /\ Len(input') = Len(input) + 1
        /\ input'[Len(input')].Text = CloseToken) =>
          /\ mBlockDepth' = -1
          /\ calls' = calls /\ flushes' = flushes
          /\ io' = io /\ cout' = cout /\ files' = files
          /\ mCommandBatch' = mCommandBatch
          /\ mBlockForced' = mBlockForced
          /\ cerr' = cerr /\ exitCode' = exitCode /\ pc' = "run"]_vars

C16_Witness ==
    /\ pc = "run" /\ mBlockDepth = -1 /\ Len(input) = 3
    /\ input[3].Text = CloseToken
    /\ Len(mCommandBatch) = 2 /\ ~mBlockForced /\ cout = <<>>

\* the writes ReportWriter made, in order
FileWrites == SelectSeq(io, IsFile)

\* C17: every emitted batch causes one file write; the name written is
\* "bulk", the decimal digits of the timestamp in whole seconds, ".log";
\* two writes have the same name exactly when their timestamps fall in the
\* same second; each file holds the text of the last write made under its
\* name; the program reports no error.
C17_LogFile ==
    /\ Len(FileWrites) = Len(Emitted)
    /\ \A e \in 1..Len(FileWrites) :
          LET w == FileWrites[e]
              n == w.name
              digits == SubSeq(n, 5, Len(n) - 4)
              sec == Atoi(digits)
          IN /\ Len(n) >= 9
             /\ SubSeq(n, 1, 4) = <<"b", "u", "l", "k">>
             /\ SubSeq(n, Len(n) - 3, Len(n)) = <<".", "l", "o", "g">>
             /\ \A d \in 1..Len(digits) : IsDigit(digits[d])
             /\ Len(digits) = 1 \/ digits[1] # "0"
             /\ sec * TicksPerSecond <= w.stamp
             /\ w.stamp < (sec + 1) * TicksPerSecond
             /\ w.stamp = Emitted[e].batch[1].Timestamp
    /\ \A e1, e2 \in 1..Len(FileWrites) :
          (FileWrites[e1].name = FileWrites[e2].name) <=>
             (FileWrites[e1].stamp \div TicksPerSecond
                = FileWrites[e2].stamp \div TicksPerSecond)
    /\ DOMAIN files = {FileWrites[e].name : e \in 1..Len(FileWrites)}
    /\ \A e \in 1..Len(FileWrites) :
          (\A l \in (e + 1)..Len(FileWrites) :
              FileWrites[l].name # FileWrites[e].name) =>
             files[FileWrites[e].name] = FileWrites[e].text
    /\ (pc = "exit" /\ constructed) => (exitCode = 0 /\ cerr = <<>>)

C17_Witness ==
    /\ pc = "exit" /\ Len(FileWrites) = 3
    /\ FileWrites[1].stamp = 0 /\ FileWrites[2].stamp = 1
    /\ FileWrites[3].stamp = 2
    /\ FileWrites[1].name = FileWrites[2].name
    /\ FileWrites[1].text # FileWrites[2].text
    /\ files[FileWrites[1].name] = FileWrites[2].text
    /\ Cardinality(DOMAIN files) = 2

\* C18: between two input lines (and at exit) mBlockForced is true exactly
\* when mBlockDepth >= 1, stray '}' lines included.
C18_ForcedIffInsideBlock ==
    constructed => (mBlockForced <=> mBlockDepth >= 1)

C18_Witness ==
    /\ pc = "run" /\ Len(input) = 4
    /\ input[1].Text = CloseToken /\ input[2].Text = OpenToken
    /\ IsOrdinary(input[3]) /\ input[4].Text = OpenToken
    /\ mBlockDepth = 1 /\ mBlockForced
    /\ Len(calls) = 2 /\ calls[2].fn = "StartBlock" /\ calls[2].line = 4

\* C19: with N > 0, a batch that is not forced holds fewer than N commands
\* between two lines; a size-triggered flush finds exactly N commands, a
\* flush at block start or at teardown at most N - 1.
C19_BatchBelowThreshold ==
    (constructed /\ mBulkSize > 0) =>
        /\ ~mBlockForced => Len(mCommandBatch) < mBulkSize
        /\ \A f \in 1..Len(flushes) :
              /\ flushes[f].cause = "size" =>
                    Len(flushes[f].batch) = mBulkSize
              /\ flushes[f].cause \in {"start", "teardown"} =>
                    Len(flushes[f].batch) <= mBulkSize - 1

C19_Witness ==
    /\ pc = "run" /\ mBulkSize = 2 /\ Len(input) = 5 /\ Len(flushes) = 3
    /\ flushes[1].cause = "size" /\ Len(flushes[1].batch) = 2
    /\ flushes[2].cause = "start" /\ Len(flushes[2].batch) = 1
    /\ flushes[3].cause = "finish" /\ Len(flushes[3].batch) = 0

\* the last line read so far that is a top-level '{' or its closing '}'
LastBoundary ==
    LET b == {i \in 1..Len(input) : IsBlockBoundary(i)}
    IN IF b = {} THEN 0 ELSE CHOOSE i \in b : \A j \in b : j <= i

\* C20: with a negative threshold the value compared with the batch length
\* is the threshold plus 2^w, which exceeds every batch length; no flush is
\* ever caused by the size test, and outside blocks the batch holds every
\* ordinary line read since the last block boundary, until the next block
\* start or the teardown emits it.
C20_NegativeThreshold ==
    (constructed /\ mBulkSize < 0) =>
        /\ ToSizeT(mBulkSize) = 2 ^ SizeBits + mBulkSize
        /\ ToSizeT(mBulkSize) > Len(mCommandBatch)
        /\ \A f \in 1..Len(flushes) :
              /\ flushes[f].cause \in {"start", "finish", "teardown"}
              /\ ToSizeT(mBulkSize) > Len(flushes[f].batch)
        /\ (pc = "run" /\ ~mBlockForced) =>
              mCommandBatch =
                 Ordinary(SubSeq(input, LastBoundary + 1, Len(input)))
        /\ (pc = "exit" /\ ~mBlockForced) =>
              /\ flushes[Len(flushes)].cause = "teardown"
              /\ flushes[Len(flushes)].batch =
                    Ordinary(SubSeq(input, LastBoundary + 1, Len(input)))

C20_Witness ==
    /\ pc = "exit" /\ mBulkSize = -1 /\ Len(input) = 5 /\ NoBlockTokens
    /\ Len(flushes) = 1 /\ Len(flushes[1].batch) = 5
    /\ Len(cout) = 1

====
